---- MODULE Spec2Model ----
(***************************************************************************)
(* Session control loop of the camera distance-measurement client          *)
(* (src/src/App.jsx): React state and refs of App, the WebSocket objects   *)
(* it creates, the frame pump interval and the FPS sampler.                *)
(*                                                                         *)
(* Texts are sequences of one-character strings so that toLowerCase(),     *)
(* includes() and template literals are computed, not assumed.  An         *)
(* optional JSON field is a sequence of length 0 (absent) or 1 (present).  *)
(* A click handler and the effect re-run its state change causes form one  *)
(* action: React flushes the effects of a discrete event synchronously.    *)
(***************************************************************************)
EXTENDS Integers, Sequences, FiniteSets, TLC

(* ---- bounds ---- *)
MaxSockets == 3
MaxFrameCount == 1

(* ---- texts of the source ---- *)
UpperCase == <<"A","B","C","D","E","F","G","H","I","J","K","L","M","N","O","P","Q","R","S","T","U","V","W","X","Y","Z">>
LowerCase == <<"a","b","c","d","e","f","g","h","i","j","k","l","m","n","o","p","q","r","s","t","u","v","w","x","y","z">>
CalibrationMarker == <<"c","a","l","i","b","r","a","t","i","o","n"," ","c","o","m","p","l","e","t","e">>
CalibrationCompleteStatus == <<"U+2705"," ","C","a","l","i","b","r","a","t","i","o","n"," ","c","o","m","p","l","e","t","e","!"," ","Y","o","u"," ","c","a","n"," ","n","o","w"," ","m","e","a","s","u","r","e"," ","d","i","s","t","a","n","c","e",".">>
CalibrationPrompt == <<"U+1F9CD"," ","S","t","a","n","d"," ","a","t"," ","o","n","e","-","a","r","m"," ","d","i","s","t","a","n","c","e"," ","a","n","d"," ","c","l","i","c","k"," ","'","C","a","p","t","u","r","e","'">>
MeasuringStatus == <<"U+1F4CF"," ","M","e","a","s","u","r","i","n","g"," ","d","i","s","t","a","n","c","e",".",".",".">>
StoppedStatus == <<"M","e","a","s","u","r","e","m","e","n","t"," ","s","t","o","p","p","e","d">>
ErrorPrefix == <<"E","r","r","o","r",":"," ">>
CalculatingText == <<"C","a","l","c","u","l","a","t","i","n","g",".",".",".">>
ZeroDistanceText == <<"0","m">>
EmptyText == << >>

(* ---- inputs: texts, images and numbers the service or camera supply ---- *)
ServiceCompleteText == <<"O","K",":"," ","C","a","l","i","b","r","a","t","i","o","n"," ","C","O","M","P","L","E","T","E">>
ServiceOtherText == <<"N","o"," ","f","a","c","e">>
ServiceErrorText == <<"b","a","d"," ","f","r","a","m","e">>
SnapshotImage == <<"d","a","t","a",":","j","p","g">>
AnnotatedImage == <<"d","a","t","a",":","o","u","t">>
FocalValues == {0, 450}
DistanceValues == {0, 12}
\* milliseconds of Date.now() between two FPS samples; 0 is a wall clock that
\* did not advance (it was set back) between two samples
ElapsedValues == {0, 1000, 2000}

(* ---- JavaScript helpers ---- *)
Absent == << >>
Present(f) == Len(f) > 0
Value(f) == f[1]

\* String.prototype.toLowerCase: the table of the letters it changes, then
\* its application to one character and to a text
LowerTable == [i \in 1..Len(UpperCase) |-> <<UpperCase[i], LowerCase[i]>>]
UpperSet == {UpperCase[i] : i \in 1..Len(UpperCase)}
LowerChar(c) ==
  IF c \in UpperSet
    THEN LowerTable[CHOOSE i \in 1..Len(UpperCase) : UpperCase[i] = c][2]
    ELSE c
toLowerCase(s) == [i \in 1..Len(s) |-> LowerChar(s[i])]

\* String.prototype.includes
includes(s, t) ==
  \E i \in 0..(Len(s) - Len(t)) : SubSeq(s, i + 1, i + Len(t)) = t

\* Number -> string conversion of a template literal, for naturals
DigitChars == <<"0","1","2","3","4","5","6","7","8","9">>
RECURSIVE NumberToText(_)
NumberToText(n) ==
  IF n < 10 THEN <<DigitChars[n + 1]>>
  ELSE NumberToText(n \div 10) \o <<DigitChars[(n % 10) + 1]>>

\* truthiness of an optional text / number field
TruthyText(f) == Present(f) /\ Value(f) # EmptyText
TruthyNumber(f) == Present(f) /\ Value(f) # 0

\* Math.round of a non-negative quotient n / d (halves round up)
MathRound(n, d) == (2 * n + d) \div (2 * d)

(* ---- inbound messages: any subset of the protocol's fields, as a     ---- *)
(* ---- calibration reply (focal length) or a detection result (faces) ---- *)
DistanceFields == {Absent} \cup {<<d>> : d \in DistanceValues}
Faces ==
  { << >> }
    \cup { << [distance |-> d] >> : d \in DistanceFields }
    \cup { << [distance |-> <<0>>], [distance |-> <<12>>] >> }
ServiceTexts == {ServiceCompleteText, ServiceOtherText}
MessageTexts == ServiceTexts \cup {EmptyText}
CalibrationReplies ==
  [ success : BOOLEAN,
    processed_image : {Absent, <<AnnotatedImage>>},
    focal_length : {Absent} \cup {<<f>> : f \in FocalValues},
    faces : {Absent},
    message : {Absent} \cup {<<t>> : t \in MessageTexts},
    error : {Absent, <<ServiceErrorText>>} ]
DetectionResults ==
  [ success : BOOLEAN,
    processed_image : {Absent, <<AnnotatedImage>>},
    focal_length : {Absent},
    faces : {<<fs>> : fs \in Faces},
    message : {Absent},
    error : {Absent, <<ServiceErrorText>>} ]
Messages == CalibrationReplies \cup DetectionResults
Snapshots == {Absent, <<SnapshotImage>>}

(* ---- state ---- *)
VARIABLES
  showCamera, currentDistance, focalLength, processedImage,
  connectionStatus, isCalibrating, isCalibrated, statusMessage,
  isMeasuring, fps,          \* useState cells
  ws,                        \* ws.current: index into sockets
  detectionInterval,         \* detectionInterval.current: "null" or "handle"
  frameCountRef,             \* frameCountRef.current
  sockets,                   \* every WebSocket object created so far
  liveTimers,                \* number of frame-pump intervals not yet cleared
  mounted,                   \* the component is mounted
  sentNow                    \* messages sent by the last handler: <<socket, kind>>

reactState == <<showCamera, currentDistance, focalLength, processedImage,
                connectionStatus, isCalibrating, isCalibrated, statusMessage,
                isMeasuring, fps>>
vars == <<showCamera, currentDistance, focalLength, processedImage,
          connectionStatus, isCalibrating, isCalibrated, statusMessage,
          isMeasuring, fps, ws, detectionInterval, frameCountRef, sockets,
          liveTimers, mounted, sentNow>>

\* the workflow phase the three flags encode (button guards, lines 216-238)
Phase ==
  IF isMeasuring THEN "Measuring"
  ELSE IF isCalibrated THEN "Calibrated"
  ELSE IF isCalibrating THEN "Calibrating"
  ELSE "Idle"

(* ---- WebSocket objects ---- *)
\* new WebSocket(...) with the handlers of the render whose isMeasuring is m
NewSocket(m) ==
  [readyState |-> "CONNECTING", isMeasuring |-> m, sent |-> {}]

\* ws.current && ws.current.readyState === WebSocket.OPEN
\* (variant: the readyState is not consulted)
IsOpen_Always(socks, c) == c # 0
\* (variant: anything but CLOSED passes the check)
IsOpen_NotClosed(socks, c) == c # 0 /\ socks[c].readyState # "CLOSED"
IsOpen(socks, c) == c # 0 /\ socks[c].readyState = "OPEN"

\* WebSocket.close(): starts the closing handshake unless already closing
CloseSocket(socks, c) ==
  IF c # 0 /\ socks[c].readyState \in {"CONNECTING", "OPEN"}
    THEN [socks EXCEPT ![c].readyState = "CLOSING"]
    ELSE socks

\* WebSocket.send() of a message of the given kind; a socket remembers which
\* of the measurement messages went out on it
TrackedKinds == {"start_distance", "frame"}
SendOn(socks, c, kind) ==
  [socks EXCEPT ![c].sent = @ \cup ({kind} \cap TrackedKinds)]

\* effect of lines 48-100 when isMeasuring changed to m: the cleanup closes
\* ws.current, then the body stores a new WebSocket in ws.current
\* (variant: the cleanup does not close the old socket)
WebSocketEffect_NoCleanup(socks, c, m) == Append(socks, NewSocket(m))
WebSocketEffect(socks, c, m) == Append(CloseSocket(socks, c), NewSocket(m))

Init ==
  /\ showCamera = FALSE
  /\ currentDistance = ZeroDistanceText
  /\ focalLength = 0
  /\ processedImage = Absent
  /\ connectionStatus = "disconnected"
  /\ isCalibrating = FALSE
  /\ isCalibrated = FALSE
  /\ statusMessage = EmptyText
  /\ isMeasuring = FALSE
  /\ fps = 0
  /\ ws = 1
  /\ detectionInterval = "null"
  /\ frameCountRef = 0
  /\ sockets = <<NewSocket(FALSE)>>
  /\ liveTimers = 0
  /\ mounted = TRUE
  /\ sentNow = << >>

(* ---- FPS sampler, lines 23-35 ---- *)
\* lines 27-28: the frame rate shown after a sample taken elapsedMs after the
\* previous one
FpsAfterSample(count, elapsedMs, old) ==
  IF elapsedMs > 0 THEN MathRound(count * 1000, elapsedMs) ELSE old

\* lines 27-29: the frame counter after that sample
\* (variant: the counter is not reset)
CountAfterSample_NoReset(count, elapsedMs) == count
CountAfterSample(count, elapsedMs) == IF elapsedMs > 0 THEN 0 ELSE count

FpsTick(elapsedMs) ==
  /\ mounted
  /\ sentNow' = << >>
  /\ fps' = FpsAfterSample(frameCountRef, elapsedMs, fps)
  /\ frameCountRef' = CountAfterSample(frameCountRef, elapsedMs)
  /\ UNCHANGED <<showCamera, currentDistance, focalLength, processedImage,
                 connectionStatus, isCalibrating, isCalibrated, statusMessage,
                 isMeasuring, ws, detectionInterval, sockets, liveTimers,
                 mounted>>

(* ---- frame pump tick: sendFrame, lines 37-46 ---- *)
\* webcamRef.current is set while the Webcam element is rendered
WebcamMounted == mounted /\ showCamera

\* lines 38-45: the frame counter after a tick that did or did not send
\* (variant: the counter is incremented ahead of the early returns)
CountAfterTick_Always(sent, count) == count + 1
CountAfterTick(sent, count) == IF sent THEN count + 1 ELSE count

sendFrame(snap) ==
  /\ liveTimers > 0
  /\ IF WebcamMounted /\ IsOpen(sockets, ws) /\ Present(snap)
       THEN /\ frameCountRef < MaxFrameCount
            /\ sockets' = SendOn(sockets, ws, "frame")
            /\ sentNow' = << <<ws, "frame">> >>
            /\ frameCountRef' = CountAfterTick(TRUE, frameCountRef)
       ELSE /\ sentNow' = << >>
            /\ frameCountRef' = CountAfterTick(FALSE, frameCountRef)
            /\ UNCHANGED sockets
  /\ UNCHANGED <<reactState, ws, detectionInterval, liveTimers, mounted>>

(* ---- WebSocket event handlers, lines 51-95 ---- *)
\* open event: the connection is established
onopen(c) ==
  /\ sockets[c].readyState = "CONNECTING"
  /\ sockets' = [sockets EXCEPT ![c].readyState = "OPEN"]
  /\ connectionStatus' = IF mounted THEN "connected" ELSE connectionStatus
  /\ sentNow' = << >>
  /\ UNCHANGED <<showCamera, currentDistance, focalLength, processedImage,
                 isCalibrating, isCalibrated, statusMessage, isMeasuring, fps,
                 ws, detectionInterval, frameCountRef, liveTimers, mounted>>

\* what the close and error handlers store in connectionStatus
onclose(status) == "disconnected"
onerror(status) == "error"

\* the connection of socket c is closed: one task sets readyState to CLOSED and
\* fires the close event (after a drop, or at the end of a close())
ConnectionClosed(c) ==
  /\ sockets[c].readyState \in {"OPEN", "CLOSING"}
  /\ sockets' = [sockets EXCEPT ![c].readyState = "CLOSED"]
  /\ connectionStatus' = IF mounted THEN onclose(connectionStatus)
                         ELSE connectionStatus
  /\ sentNow' = << >>
  /\ UNCHANGED <<showCamera, currentDistance, focalLength, processedImage,
                 isCalibrating, isCalibrated, statusMessage, isMeasuring, fps,
                 ws, detectionInterval, frameCountRef, liveTimers, mounted>>

\* the connection of socket c fails: one task sets readyState to CLOSED, fires
\* the error event and then the close event
ConnectionFailed(c) ==
  /\ sockets[c].readyState \in {"CONNECTING", "OPEN", "CLOSING"}
  /\ sockets' = [sockets EXCEPT ![c].readyState = "CLOSED"]
  /\ connectionStatus' = IF mounted THEN onclose(onerror(connectionStatus))
                         ELSE connectionStatus
  /\ sentNow' = << >>
  /\ UNCHANGED <<showCamera, currentDistance, focalLength, processedImage,
                 isCalibrating, isCalibrated, statusMessage, isMeasuring, fps,
                 ws, detectionInterval, frameCountRef, liveTimers, mounted>>

\* data.message?.toLowerCase().includes("calibration complete")
\* (the texts that match are computed once for the texts a message can carry)
CompleteTexts ==
  {t \in MessageTexts : includes(toLowerCase(t), CalibrationMarker)}
\* (variant: the text is not lower-cased before the search)
IsCalibrationComplete_CaseSensitive(data) ==
  /\ Present(data.message)
  /\ includes(Value(data.message), CalibrationMarker)
IsCalibrationComplete(data) ==
  /\ Present(data.message)
  /\ Value(data.message) \in CompleteTexts

\* data.faces[0].distance > 0 ? `${data.faces[0].distance}m` : 'Calculating...'
DistanceText(face) ==
  IF Present(face.distance) /\ Value(face.distance) > 0
    THEN NumberToText(Value(face.distance)) \o <<"m">>
    ELSE CalculatingText

\* the status message after lines 71-89, written in program order
\* (variant: the completion text of line 74 is written after the message text)
StatusAfter_CompletionLast(complete, data, old) ==
  LET s1 == IF TruthyText(data.message) THEN Value(data.message) ELSE old
      s2 == IF complete THEN CalibrationCompleteStatus ELSE s1
  IN  IF TruthyText(data.error)
        THEN ErrorPrefix \o Value(data.error) ELSE s2
StatusAfter(complete, data, old) ==
  LET s1 == IF complete THEN CalibrationCompleteStatus ELSE old
      s2 == IF TruthyText(data.message) THEN Value(data.message) ELSE s1
  IN  IF TruthyText(data.error)
        THEN ErrorPrefix \o Value(data.error) ELSE s2

\* lines 63-65: the processed image after a message
ProcessedImageAfter(data, old) ==
  IF data.success /\ TruthyText(data.processed_image)
    THEN data.processed_image ELSE old

\* lines 67-69: the focal length after a message
\* (variant: a message without focal_length resets the value)
FocalLengthAfter_Reset(data, old) ==
  IF data.success /\ TruthyNumber(data.focal_length)
    THEN Value(data.focal_length) ELSE 0
FocalLengthAfter(data, old) ==
  IF data.success /\ TruthyNumber(data.focal_length)
    THEN Value(data.focal_length) ELSE old

\* lines 77-79: the displayed distance after a message, for a handler whose
\* captured isMeasuring is measuring
DistanceAfter(data, measuring, old) ==
  IF /\ data.success
     /\ Present(data.faces)
     /\ Len(Value(data.faces)) > 0
     /\ measuring
    THEN DistanceText(Value(data.faces)[1]) ELSE old

\* lines 71-75: the message completes the calibration
Completes(data) == data.success /\ IsCalibrationComplete(data)

\* message event on socket c; a socket delivers messages only while OPEN.
\* The handler reads the isMeasuring captured when the socket was created.
CanDeliver(c) == sockets[c].readyState = "OPEN" /\ mounted
onmessage(c, data) ==
  LET complete == Completes(data) IN
  /\ CanDeliver(c)
  /\ sentNow' = << >>
  /\ processedImage' = ProcessedImageAfter(data, processedImage)
  /\ focalLength' = FocalLengthAfter(data, focalLength)
  /\ isCalibrating' = IF complete THEN FALSE ELSE isCalibrating
  /\ isCalibrated' = IF complete THEN TRUE ELSE isCalibrated
  /\ currentDistance' =
       DistanceAfter(data, sockets[c].isMeasuring, currentDistance)
  /\ statusMessage' = StatusAfter(complete, data, statusMessage)
  /\ UNCHANGED <<showCamera, connectionStatus, isMeasuring, fps, ws,
                 detectionInterval, frameCountRef, sockets, liveTimers,
                 mounted>>

(* ---- user requests; each button is rendered under its guard ---- *)
CalibrateButton_Always == mounted   \* variant: rendered in every phase
CalibrateButton == mounted /\ ~isCalibrated /\ ~isCalibrating
CaptureButton_Always == mounted   \* variant: rendered in every phase
CaptureButton == mounted /\ isCalibrating
\* (variant: still rendered while measuring)
MeasureButton_WhileMeasuring == mounted /\ isCalibrated
MeasureButton == mounted /\ isCalibrated /\ ~isMeasuring
StopButton == mounted /\ isMeasuring

\* clearInterval(detectionInterval.current) when a handle is held: the number
\* of live pump intervals afterwards
TimersAfterClear_Kept(handle, n) == n   \* variant: the interval is not cleared
TimersAfterClear(handle, n) == IF handle # "null" THEN n - 1 ELSE n

\* Calibrate button (lines 216-220) and startCalibration (lines 102-110)
startCalibration ==
  /\ CalibrateButton
  /\ IF IsOpen(sockets, ws)
       THEN /\ sockets' = SendOn(sockets, ws, "start_calibration")
            /\ sentNow' = << <<ws, "start_calibration">> >>
            /\ isCalibrating' = TRUE
            /\ isCalibrated' = FALSE
            /\ showCamera' = TRUE
            /\ statusMessage' = CalibrationPrompt
       ELSE /\ sentNow' = << >>
            /\ UNCHANGED <<sockets, isCalibrating, isCalibrated, showCamera,
                           statusMessage>>
  /\ UNCHANGED <<currentDistance, focalLength, processedImage,
                 connectionStatus, isMeasuring, fps, ws, detectionInterval,
                 frameCountRef, liveTimers, mounted>>

\* Capture button (lines 222-226) and captureCalibration (lines 112-121)
captureCalibration(snap) ==
  /\ CaptureButton
  /\ IF WebcamMounted /\ Present(snap) /\ IsOpen(sockets, ws)
       THEN /\ sockets' = SendOn(sockets, ws, "capture")
            /\ sentNow' = << <<ws, "capture">> >>
       ELSE /\ sentNow' = << >>
            /\ UNCHANGED sockets
  /\ UNCHANGED <<reactState, ws, detectionInterval, frameCountRef,
                 liveTimers, mounted>>

\* Measure button (lines 228-232) and startMeasuringDistance (lines 123-132);
\* setIsMeasuring(true) re-runs the WebSocket effect (deps [isMeasuring])
startMeasuringDistance ==
  /\ MeasureButton
  /\ IF IsOpen(sockets, ws)
       THEN /\ Len(sockets) < MaxSockets
            /\ sentNow' = << <<ws, "start_distance">> >>
            /\ isMeasuring' = TRUE
            /\ detectionInterval' = "handle"
            /\ liveTimers' = liveTimers + 1
            /\ statusMessage' = MeasuringStatus
            /\ sockets' = WebSocketEffect(SendOn(sockets, ws, "start_distance"),
                                          ws, TRUE)
            /\ ws' = Len(sockets) + 1
       ELSE /\ sentNow' = << >>
            /\ UNCHANGED <<isMeasuring, detectionInterval, liveTimers,
                           statusMessage, sockets, ws>>
  /\ UNCHANGED <<showCamera, currentDistance, focalLength, processedImage,
                 connectionStatus, isCalibrating, isCalibrated, fps,
                 frameCountRef, mounted>>

\* Stop button (lines 234-238) and stopMeasuringDistance (lines 134-147);
\* setIsMeasuring(false) re-runs the WebSocket effect (deps [isMeasuring])
stopMeasuringDistance ==
  /\ StopButton
  /\ Len(sockets) < MaxSockets
  /\ sentNow' = IF IsOpen(sockets, ws) THEN << <<ws, "stop_all">> >> ELSE << >>
  /\ liveTimers' = TimersAfterClear(detectionInterval, liveTimers)
  /\ detectionInterval' = "null"
  /\ isMeasuring' = FALSE
  /\ currentDistance' = ZeroDistanceText
  /\ statusMessage' = StoppedStatus
  /\ processedImage' = Absent
  /\ sockets' = WebSocketEffect(
                  IF IsOpen(sockets, ws) THEN SendOn(sockets, ws, "stop_all")
                  ELSE sockets, ws, FALSE)
  /\ ws' = Len(sockets) + 1
  /\ UNCHANGED <<showCamera, focalLength, connectionStatus, isCalibrating,
                 isCalibrated, fps, frameCountRef, mounted>>

(* ---- unmount: effect cleanups of lines 34, 97-99 and 150-156 ---- *)
Unmount ==
  /\ mounted
  /\ mounted' = FALSE
  /\ sentNow' = << >>
  /\ sockets' = CloseSocket(sockets, ws)
  /\ liveTimers' = TimersAfterClear(detectionInterval, liveTimers)
  /\ UNCHANGED <<reactState, ws, detectionInterval, frameCountRef>>

Next ==
  \/ \E e \in ElapsedValues : FpsTick(e)
  \/ \E snap \in Snapshots : sendFrame(snap)
  \/ \E c \in 1..Len(sockets) : onopen(c)
  \/ \E c \in 1..Len(sockets) : ConnectionClosed(c)
  \/ \E c \in 1..Len(sockets) : ConnectionFailed(c)
  \/ \E c \in 1..Len(sockets), data \in Messages : onmessage(c, data)
  \/ startCalibration
  \/ \E snap \in Snapshots : captureCalibration(snap)
  \/ startMeasuringDistance
  \/ stopMeasuringDistance
  \/ Unmount

Spec == Init /\ [][Next]_vars

TypeOK ==
  /\ showCamera \in BOOLEAN
  /\ isCalibrating \in BOOLEAN /\ isCalibrated \in BOOLEAN
  /\ isMeasuring \in BOOLEAN /\ mounted \in BOOLEAN
  /\ connectionStatus \in {"disconnected", "connected", "error"}
  /\ detectionInterval \in {"null", "handle"}
  /\ frameCountRef \in 0..MaxFrameCount
  /\ liveTimers \in 0..1
  /\ ws \in 1..Len(sockets)
  /\ Len(sockets) <= MaxSockets
(***************************************************************************)
(* Properties                                                              *)
(***************************************************************************)
\* kinds of the messages the last handler sent
SentKinds(sent) == {sent[i][2] : i \in 1..Len(sent)}
SocketIds == 1..Len(sockets)
FramesWereSent == \E c \in SocketIds : "frame" \in sockets[c].sent

\* C1: in every state whose phase is not Measuring, no frame pump interval
\* is live, no handle is held, and the handler that ran last sent no frame.
C1_PumpOnlyWhileMeasuring ==
  Phase # "Measuring" =>
    /\ liveTimers = 0
    /\ detectionInterval = "null"
    /\ "frame" \notin SentKinds(sentNow)

\* C1 witness: measurement ran, frames went out, and the user stopped it.
C1_Witness ==
  /\ Phase = "Calibrated"
  /\ statusMessage = StoppedStatus
  /\ FramesWereSent
  /\ liveTimers = 0

\* C2: a message delivered, while the session is not measuring, on a socket
\* that carried frames changes neither the displayed distance nor the
\* processed image; and any step that changes the displayed distance starts
\* in phase Measuring.
C2_StaleRepliesIgnored ==
  [][ /\ ( /\ ~isMeasuring
             /\ \/ currentDistance' # currentDistance
                \/ processedImage' # processedImage )
           => \A c \in SocketIds :
                "frame" \in sockets[c].sent =>
                  ~ \E data \in Messages : onmessage(c, data)
      /\ (currentDistance' # currentDistance => Phase = "Measuring")
    ]_vars

\* C2 witness: after a stop that followed sent frames, a message has been
\* processed (the status is a service text) and the display is still cleared.
C2_Witness ==
  /\ ~isMeasuring
  /\ FramesWereSent
  /\ statusMessage \in ServiceTexts \cup {ErrorPrefix \o ServiceErrorText}
  /\ currentDistance = ZeroDistanceText
  /\ processedImage = Absent

\* C3: at most one connection is ever opened during one mount.
C3_AtMostOneConnection == Len(sockets) <= 1

\* a step of the given kind, told by what it does to the state
StopStep == isMeasuring /\ ~isMeasuring'
UnmountStep == mounted /\ ~mounted'
CurrentIsOpen == sockets[ws].readyState = "OPEN"
MarkedTexts == {t \in ServiceTexts : includes(toLowerCase(t), CalibrationMarker)}

\* C4: the phase changes only along Idle -> Calibrating, Calibrating ->
\* Calibrated, Calibrated -> Measuring and Measuring -> Calibrated.
C4_PhaseTransitions ==
  [][ Phase' # Phase =>
        <<Phase, Phase'>> \in { <<"Idle", "Calibrating">>,
                                <<"Calibrating", "Calibrated">>,
                                <<"Calibrated", "Measuring">>,
                                <<"Measuring", "Calibrated">> } ]_vars

\* C5: a stop request issued while measuring leaves the displayed distance
\* and the processed image cleared, the pump stopped and the phase
\* Calibrated, and sends stop_all exactly when the channel was open.
C5_StopClearsEverything ==
  [][ StopStep =>
        /\ currentDistance' = ZeroDistanceText
        /\ processedImage' = Absent
        /\ liveTimers' = 0
        /\ detectionInterval' = "null"
        /\ Phase' = "Calibrated"
        /\ sentNow' = IF CurrentIsOpen THEN << <<ws, "stop_all">> >>
                      ELSE << >> ]_vars

\* C5 witness: frames went out, a result was displayed or not, and the stop
\* request has run on an open channel.
C5_Witness ==
  /\ Phase = "Calibrated"
  /\ statusMessage = StoppedStatus
  /\ SentKinds(sentNow) = {"stop_all"}
  /\ FramesWereSent
  /\ currentDistance = ZeroDistanceText
  /\ processedImage = Absent

\* C6: a capture request sends exactly one capture message when a snapshot
\* is available and the channel is open, and none otherwise; it leaves the
\* phase alone; a capture message is sent only in phase Calibrating.
C6_CaptureOnlyWhileCalibrating ==
  [][ /\ \A snap \in Snapshots :
           captureCalibration(snap) =>
             /\ sentNow' = IF Present(snap) /\ CurrentIsOpen
                             THEN << <<ws, "capture">> >> ELSE << >>
             /\ Phase' = Phase
      /\ "capture" \in SentKinds(sentNow') =>
           /\ Phase = "Calibrating"
           /\ Phase' = "Calibrating"
           /\ Len(sentNow') = 1
    ]_vars

\* C6 witness: a capture message has just been sent, in phase Calibrating.
C6_Witness ==
  /\ Phase = "Calibrating"
  /\ sentNow = << <<ws, "capture">> >>

\* C7: processing a message leaves alone every attribute whose field the
\* message does not carry: in every state, whatever message a socket can
\* deliver, the handler keeps the processed image without processed_image,
\* the focal length without focal_length, the displayed distance without
\* faces, and the status message without both message and error.
C7_AbsentFieldsKeepState ==
  \A c \in SocketIds :
    CanDeliver(c) =>
      \A data \in Messages :
        /\ ~Present(data.processed_image) =>
             ProcessedImageAfter(data, processedImage) = processedImage
        /\ ~Present(data.focal_length) =>
             FocalLengthAfter(data, focalLength) = focalLength
        /\ ~Present(data.faces) =>
             DistanceAfter(data, sockets[c].isMeasuring, currentDistance)
               = currentDistance
        /\ (~Present(data.message) /\ ~Present(data.error)) =>
             StatusAfter(Completes(data), data, statusMessage) = statusMessage

\* C7 witness: a focal length and a distance are both shown; no message
\* carries both, so the later message kept what the earlier one had set.
C7_Witness ==
  /\ Phase = "Measuring"
  /\ focalLength = 450
  /\ currentDistance = NumberToText(12) \o <<"m">>

\* C8 as stated: from Calibrating, a message with success, a text containing
\* the marker in any letter case and a focal_length f moves the phase to
\* Calibrated, sets focalLength to f and leaves a completion text as status.
C8_CompletionAsStated ==
  [][ Phase = "Calibrating" =>
        \A c \in SocketIds, data \in Messages :
          ( /\ data.success
            /\ Present(data.focal_length)
            /\ Present(data.message)
            /\ Value(data.message) \in MarkedTexts
            /\ onmessage(c, data) )
          => /\ Phase' = "Calibrated"
             /\ focalLength' = Value(data.focal_length)
             /\ includes(toLowerCase(statusMessage'), CalibrationMarker)
    ]_vars

\* C8 amended: from Calibrating, a message with success, no error field, a
\* text containing the marker in any letter case and a non-zero focal_length
\* f moves the phase to Calibrated, sets focalLength to f and leaves the
\* message's own text as the status message.
C8_Completion ==
  [][ Phase = "Calibrating" =>
        \A c \in SocketIds, data \in Messages :
          ( /\ data.success
            /\ ~Present(data.error)
            /\ Present(data.focal_length)
            /\ Value(data.focal_length) # 0
            /\ Present(data.message)
            /\ Value(data.message) \in MarkedTexts
            /\ onmessage(c, data) )
          => /\ Phase' = "Calibrated"
             /\ focalLength' = Value(data.focal_length)
             /\ statusMessage' = Value(data.message)
    ]_vars

\* C8 witness: calibration has completed with the reported focal length and
\* the service's completion text, whose letter case differs from the marker.
C8_Witness ==
  /\ Phase = "Calibrated"
  /\ focalLength = 450
  /\ statusMessage = ServiceCompleteText
  /\ ~includes(ServiceCompleteText, CalibrationMarker)

\* the distance text the display policy asks for after a detection result
ExpectedDistance(data) ==
  LET faces == Value(data.faces) IN
  IF /\ Len(faces) > 0
     /\ Present(faces[1].distance)
     /\ Value(faces[1].distance) > 0
    THEN NumberToText(Value(faces[1].distance)) \o <<"m">>
    ELSE CalculatingText

\* C9: while measuring, after each inbound result the displayed distance is
\* the first detection's positive distance, and the calculating indicator
\* when that distance is non-positive or missing or there is no detection.
C9_DistanceFollowsLatest ==
  [][ Phase = "Measuring" =>
        \A c \in SocketIds, data \in Messages :
          ( /\ data.success
            /\ Present(data.faces)
            /\ onmessage(c, data) )
          => currentDistance' = ExpectedDistance(data)
    ]_vars

\* C10: after an explicit stop, an unmount or a connection error of the
\* channel in use, no pump interval is live and that channel is not open.
C10_ExitReleasesResources ==
  [][ (StopStep \/ UnmountStep \/ ConnectionFailed(ws)) =>
        /\ liveTimers' = 0
        /\ sockets'[ws].readyState # "OPEN" ]_vars

\* C11: a message that carries an error field never changes the phase, and
\* after it is processed the status message is exactly the error text.
C11_ErrorKeepsPhase ==
  [][ \A c \in SocketIds, data \in Messages :
        (Present(data.error) /\ onmessage(c, data))
        => /\ Phase' = Phase
           /\ statusMessage' = Value(data.error) ]_vars

\* a step of the FPS sampler at which the wall clock has advanced
AdvancingSample == \E e \in ElapsedValues : e > 0 /\ FpsTick(e)

\* C12 as stated: a sampling tick taken while the frame pump is idle leaves
\* the reported frame rate at 0, and every sampling tick resets the frame
\* counter to zero.
C12_IdleRateAsStated ==
  [][ \A e \in ElapsedValues :
        FpsTick(e) => /\ frameCountRef' = 0
                      /\ (liveTimers = 0 => fps' = 0) ]_vars

\* C12 amended: every sampling tick at which the wall clock has advanced
\* resets the frame counter to zero, whether or not the pump is active, and
\* reports rate 0 when no frame was counted since the previous such tick;
\* the counter grows only by a tick of a live pump.  So an idle pump shows
\* rate 0 after at most two such ticks: the first still reports the frames
\* sent before the pump stopped.
C12_IdleRate ==
  [][ /\ AdvancingSample =>
           /\ frameCountRef' = 0
           /\ (frameCountRef = 0 => fps' = 0)
      /\ (frameCountRef' > frameCountRef => liveTimers > 0)
      /\ (liveTimers = 0 /\ frameCountRef = 0 /\ fps = 0) => fps' = 0
    ]_vars

\* C12 witness: frames were sent, the pump has stopped, and the sampler has
\* brought the counter and the reported rate back to 0.
C12_Witness ==
  /\ mounted
  /\ liveTimers = 0
  /\ FramesWereSent
  /\ frameCountRef = 0
  /\ fps = 0

\* C13: the focal length is 0 in every state in which no calibration has
\* completed yet (isCalibrated is set by the first completion and is cleared
\* only by a calibration request, which needs it to be clear).
C13_FocalLengthZeroUntilCalibrated == ~isCalibrated => focalLength = 0

\* everything of the session but the record of what the last handler sent
sessionState == <<reactState, ws, detectionInterval, frameCountRef, sockets,
                  liveTimers, mounted>>

\* C14: a calibration, capture or measurement-start request made while the
\* channel in use is not open, and a capture request made without a
\* snapshot, send nothing and leave the whole session state unchanged.
C14_UnavailableRequestsSkipped ==
  [][ /\ ((startCalibration \/ startMeasuringDistance) /\ ~CurrentIsOpen)
           => (sentNow' = << >> /\ UNCHANGED sessionState)
      /\ \A snap \in Snapshots :
           (captureCalibration(snap) /\ (~CurrentIsOpen \/ ~Present(snap)))
             => (sentNow' = << >> /\ UNCHANGED sessionState)
    ]_vars

\* C14 witness: calibration has completed and the channel has gone away; the
\* measurement request made here was skipped: nothing sent, no pump, the
\* phase and the status as they were.
C14_Witness ==
  /\ MeasureButton
  /\ sockets[ws].readyState = "CLOSED"
  /\ sentNow = << >>
  /\ liveTimers = 0
  /\ Phase = "Calibrated"
  /\ statusMessage = ServiceCompleteText

\* C15: a frame pump tick sends exactly one bare frame, on the channel in use,
\* when that channel is open and the camera yields a snapshot, and nothing
\* otherwise; it sends nothing else and leaves nothing behind for a later
\* tick; the frame counter grows by one with each frame sent and only then.
C15_OneFramePerTick ==
  [][ /\ \A snap \in Snapshots :
           sendFrame(snap) =>
             IF CurrentIsOpen /\ mounted /\ showCamera /\ Present(snap)
               THEN /\ sentNow' = << <<ws, "frame">> >>
                    /\ frameCountRef' = frameCountRef + 1
               ELSE /\ sentNow' = << >>
                    /\ frameCountRef' = frameCountRef
                    /\ sockets' = sockets
      /\ frameCountRef' > frameCountRef
           => /\ frameCountRef' = frameCountRef + 1
              /\ sentNow' = << <<ws, "frame">> >>
      /\ "frame" \in SentKinds(sentNow')
           => /\ Len(sentNow') = 1
              /\ frameCountRef' = frameCountRef + 1
    ]_vars

\* C15 witness: a tick has just sent one frame on the open channel in use and
\* counted it.
C15_Witness ==
  /\ sentNow = << <<ws, "frame">> >>
  /\ frameCountRef = 1
  /\ CurrentIsOpen
  /\ liveTimers = 1

\* C16 as stated: in every phase, whatever message that carries a message
\* field and no error field a socket delivers, the handler leaves that
\* field's text as the status message, whatever the success flag.
C16_StatusFollowsMessageAsStated ==
  \A c \in SocketIds :
    CanDeliver(c) =>
      \A data \in Messages :
        (Present(data.message) /\ ~Present(data.error))
        => StatusAfter(Completes(data), data, statusMessage)
             = Value(data.message)

\* C16 amended: in every phase, whatever message that carries a non-empty
\* message field and no error field a socket delivers, the handler leaves
\* that field's text as the status message, whatever the success flag and
\* whatever the status was: the text of a later message replaces the text
\* of an earlier one.
C16_StatusFollowsMessage ==
  \A c \in SocketIds :
    CanDeliver(c) =>
      \A data \in Messages :
        ( /\ Present(data.message)
          /\ Value(data.message) # EmptyText
          /\ ~Present(data.error) )
        => StatusAfter(Completes(data), data, statusMessage)
             = Value(data.message)

\* C16 witness: while measuring, a message text unrelated to the phase has
\* replaced the status the measurement request had set.
C16_Witness ==
  /\ Phase = "Measuring"
  /\ statusMessage = ServiceOtherText

\* C17: every socket on which a bare frame was sent is one on which a
\* start_distance command was sent before (a socket's frames follow its
\* start_distance: the pump exists only after that command).
C17_FramesFollowStartOnSameSocket ==
  \A c \in SocketIds :
    "frame" \in sockets[c].sent => "start_distance" \in sockets[c].sent

\* no open, close or error event of any socket is still to be delivered: a
\* CONNECTING socket has its open or error event ahead, a CLOSING one its
\* close event
NoEventPending ==
  \A c \in SocketIds : sockets[c].readyState \in {"OPEN", "CLOSED"}

\* C18: while the component is mounted and no channel event is pending, the
\* connection status is "connected" exactly when the socket in use is open.
C18_StatusMatchesCurrentSocket ==
  (mounted /\ NoEventPending) =>
    (connectionStatus = "connected" <=> CurrentIsOpen)

\* C19: the three flags encode exactly one phase: isCalibrating and
\* isCalibrated are never both set, and isMeasuring is set only together
\* with isCalibrated and without isCalibrating.
C19_FlagsEncodeOnePhase ==
  /\ ~(isCalibrating /\ isCalibrated)
  /\ isMeasuring => (isCalibrated /\ ~isCalibrating)

\* C19 witness: the session has gone through calibration (the camera is
\* shown) and is measuring.
C19_Witness ==
  /\ isMeasuring
  /\ isCalibrated
  /\ ~isCalibrating
  /\ showCamera
  /\ focalLength = 450

\* C20: at most one pump interval is live; while the component is mounted
\* one is live exactly when isMeasuring is set; a live interval is always
\* the one whose handle the session holds; clearing without a handle leaves
\* the live intervals as they are.
C20_OnePumpTimer ==
  /\ liveTimers <= 1
  /\ mounted => (liveTimers = 1 <=> isMeasuring)
  /\ liveTimers > 0 => detectionInterval = "handle"
  /\ (mounted /\ detectionInterval = "handle") => liveTimers = 1
  /\ TimersAfterClear("null", liveTimers) = liveTimers

\* C20 witness: measurement is running on its replacement socket, frames are
\* going out, and exactly one interval is live and held.
C20_Witness ==
  /\ mounted
  /\ isMeasuring
  /\ liveTimers = 1
  /\ detectionInterval = "handle"
  /\ sentNow = << <<ws, "frame">> >>

====
